---- MODULE Spec2Model ----
(***************************************************************************)
(* RustyParser: the parser combinator engine of rusty_parser/src/parser.rs *)
(* and the flattening of rusty_parser/src/command.rs.                      *)
(*                                                                         *)
(* A &str is a sequence of chars; a char is a one-character string, except *)
(* WideChar, which stands for a two-byte alphanumeric scalar value.  A     *)
(* parser (a value implementing the Parser trait) is a record naming the   *)
(* function that built it and its captured arguments; parse(p, input) is   *)
(* Parser::parse.  A closure is a record naming its body and what it       *)
(* captured; Call applies it.                                              *)
(***************************************************************************)
EXTENDS Integers, Sequences, FiniteSets, TLC

VARIABLES shape, input, pc, parser, out, args

vars == <<shape, input, pc, parser, out, args>>

----------------------------------------------------------------------------
(* chars and string slices *)

WideChar == "U+00E9"

Width(c) == IF c = WideChar THEN 2 ELSE 1

Alphanumeric == {"a", "b", "k", "l", "s", "v", "A", "1", WideChar}

is_alphanumeric(c) == c \in Alphanumeric

Whitespace == {" ", "\t"}

is_whitespace(c) == c \in Whitespace

RECURSIVE ByteLen(_)
ByteLen(s) == IF s = <<>> THEN 0 ELSE Width(Head(s)) + ByteLen(Tail(s))

\* the number of chars of s that make up its first n bytes; -1 when byte n is
\* past the end of s or inside a char (str::get gives None there)
RECURSIVE CharsIn(_, _, _)
CharsIn(s, i, n) ==
    IF n = 0 THEN i - 1
    ELSE IF i > Len(s) \/ Width(s[i]) > n THEN -1
    ELSE CharsIn(s, i + 1, n - Width(s[i]))

SliceTo(s, n) == SubSeq(s, 1, CharsIn(s, 1, n))

SliceFrom(s, n) == SubSeq(s, CharsIn(s, 1, n) + 1, Len(s))

----------------------------------------------------------------------------
(* ParseResult and Element *)

Ok(next_input, value) == [ok |-> TRUE, rest |-> next_input, val |-> value]

Err(err) == [ok |-> FALSE, rest |-> err, val |-> <<>>]

Element(name, attr, children) == [name |-> name, attr |-> attr, children |-> children]

----------------------------------------------------------------------------
(* the parsers, as values *)

literal_match(expected) == [op |-> "literal_match", expected |-> expected]

non_literal == [op |-> "non_literal"]

any_char == [op |-> "any_char"]

pair(parser1, parser2) == [op |-> "pair", parser1 |-> parser1, parser2 |-> parser2]

mapper(p, f) == [op |-> "mapper", parser |-> p, f |-> f]

left(parser1, parser2) == mapper(pair(parser1, parser2), [fn |-> "take_left"])

right(parser1, parser2) == mapper(pair(parser1, parser2), [fn |-> "take_right"])

one_or_more(p) == [op |-> "one_or_more", parser |-> p]

zero_or_more(p) == [op |-> "zero_or_more", parser |-> p]

pred(p, predicate) == [op |-> "pred", parser |-> p, predicate |-> predicate]

either(parser1, parser2) == [op |-> "either", parser1 |-> parser1, parser2 |-> parser2]

and_then(p, f) == [op |-> "and_then", parser |-> p, f |-> f]

whitespace_char == pred(any_char, [fn |-> "is_whitespace"])

space1 == one_or_more(whitespace_char)

space0 == zero_or_more(whitespace_char)

not_quote_char == pred(any_char, [fn |-> "not_quote"])

quoted_string ==
    mapper(right(literal_match(<<"\"">>),
                 left(zero_or_more(not_quote_char), literal_match(<<"\"">>))),
           [fn |-> "collect"])

attribute_pair == pair(non_literal, right(literal_match(<<"=">>), quoted_string))

attribute_item == right(space1, attribute_pair)

attributes == zero_or_more(attribute_item)

element_start == right(literal_match(<<"<">>), pair(non_literal, attributes))

single_element ==
    mapper(left(element_start, literal_match(<<"/", ">">>)), [fn |-> "new_element"])

open_element ==
    mapper(left(element_start, literal_match(<<">">>)), [fn |-> "new_element"])

close_element(expected_name) ==
    pred(right(literal_match(<<"<", "/">>), left(non_literal, literal_match(<<">">>))),
         [fn |-> "name_is", expected_name |-> expected_name])

parent_element == and_then(open_element, [fn |-> "parent_body"])

whitespace_wrap(p) == right(space0, left(p, space0))

element == whitespace_wrap(either(single_element, parent_element))

cli_words == one_or_more(whitespace_wrap(element))

----------------------------------------------------------------------------
(* the closures *)

new_element(v) == Element(v[1], v[2], <<>>)

\* the children dropped
with_children_dropped(el, children) == el

with_children(el, children) == [el EXCEPT !.children = children]

Fold(c) == IF c = "A" THEN "a" ELSE c

\* a comparison that folds case
name_is_folded(name, expected_name) ==
    [i \in 1..Len(name) |-> Fold(name[i])] = [i \in 1..Len(expected_name) |-> Fold(expected_name[i])]

name_is(name, expected_name) == name = expected_name

parent_body(el) ==
    mapper(left(zero_or_more(element), close_element(el.name)),
           [fn |-> "with_children", el |-> el])

Call(f, x) ==
    CASE f.fn = "take_left" -> x[1]
      [] f.fn = "take_right" -> x[2]
      [] f.fn = "collect" -> x
      [] f.fn = "new_element" -> new_element(x)
      [] f.fn = "with_children" -> with_children(f.el, x)
      [] f.fn = "parent_body" -> parent_body(x)
      [] f.fn = "is_whitespace" -> is_whitespace(x)
      [] f.fn = "not_quote" -> x /= "\""
      [] f.fn = "name_is" -> name_is(x, f.expected_name)

----------------------------------------------------------------------------
(* Parser::parse *)

RECURSIVE parse(_, _)

literal_match_parse(expected, s) ==
    LET n == ByteLen(expected) IN
    IF CharsIn(s, 1, n) >= 0 /\ SliceTo(s, n) = expected
    THEN Ok(SliceFrom(s, n), <<>>)
    ELSE Err(s)

\* the token charset without '.'
RECURSIVE MatchedLen_no_dot(_, _)
MatchedLen_no_dot(s, i) ==
    IF i <= Len(s) /\ (is_alphanumeric(s[i]) \/ s[i] = "-" \/ s[i] = "&")
    THEN MatchedLen_no_dot(s, i + 1)
    ELSE i - 1

RECURSIVE MatchedLen(_, _)
MatchedLen(s, i) ==
    IF i <= Len(s) /\ (is_alphanumeric(s[i]) \/ s[i] = "-" \/ s[i] = "&" \/ s[i] = ".")
    THEN MatchedLen(s, i + 1)
    ELSE i - 1

non_literal_parse(s) ==
    LET matched == SubSeq(s, 1, MatchedLen(s, 1)) IN
    IF matched = <<>> THEN Err(s)
    ELSE LET next_index == ByteLen(matched) IN Ok(SliceFrom(s, next_index), matched)

\* a char read without advancing the cursor
any_char_parse_stuck(s) ==
    IF s /= <<>> THEN Ok(s, Head(s)) ELSE Err(s)

any_char_parse(s) ==
    IF s /= <<>> THEN Ok(SliceFrom(s, Width(Head(s))), Head(s)) ELSE Err(s)

pair_parse(parser1, parser2, s) ==
    LET r1 == parse(parser1, s) IN
    IF r1.ok
    THEN LET r2 == parse(parser2, r1.rest) IN
         IF r2.ok THEN Ok(r2.rest, <<r1.val, r2.val>>) ELSE Err(r2.rest)
    ELSE Err(r1.rest)

mapper_parse(p, f, s) ==
    LET r == parse(p, s) IN
    IF r.ok THEN Ok(r.rest, Call(f, r.val)) ELSE r

\* a loop that hands back the cursor of the failing attempt
RECURSIVE while_let_ok_advanced(_, _, _)
while_let_ok_advanced(p, s, result) ==
    LET r == parse(p, s) IN
    IF r.ok THEN while_let_ok_advanced(p, r.rest, Append(result, r.val)) ELSE Ok(r.rest, result)

RECURSIVE while_let_ok(_, _, _)
while_let_ok(p, s, result) ==
    LET r == parse(p, s) IN
    IF r.ok THEN while_let_ok(p, r.rest, Append(result, r.val)) ELSE Ok(s, result)

one_or_more_parse(p, s) ==
    LET first == parse(p, s) IN
    IF first.ok THEN while_let_ok(p, first.rest, <<first.val>>) ELSE Err(first.rest)

zero_or_more_parse(p, s) == while_let_ok(p, s, <<>>)

\* a filter that keeps the consumed-but-rejected progress
pred_parse_keeps_progress(p, predicate, s) ==
    LET r == parse(p, s) IN
    IF r.ok /\ Call(predicate, r.val) THEN Ok(r.rest, r.val) ELSE Err(r.rest)

pred_parse(p, predicate, s) ==
    LET r == parse(p, s) IN
    IF r.ok /\ Call(predicate, r.val) THEN Ok(r.rest, r.val) ELSE Err(s)

either_parse(parser1, parser2, s) ==
    LET r1 == parse(parser1, s) IN
    IF r1.ok THEN r1 ELSE parse(parser2, s)

and_then_parse(p, f, s) ==
    LET r == parse(p, s) IN
    IF r.ok THEN parse(Call(f, r.val), r.rest) ELSE Err(r.rest)

parse(p, s) ==
    CASE p.op = "literal_match" -> literal_match_parse(p.expected, s)
      [] p.op = "non_literal" -> non_literal_parse(s)
      [] p.op = "any_char" -> any_char_parse(s)
      [] p.op = "pair" -> pair_parse(p.parser1, p.parser2, s)
      [] p.op = "mapper" -> mapper_parse(p.parser, p.f, s)
      [] p.op = "one_or_more" -> one_or_more_parse(p.parser, s)
      [] p.op = "zero_or_more" -> zero_or_more_parse(p.parser, s)
      [] p.op = "pred" -> pred_parse(p.parser, p.predicate, s)
      [] p.op = "either" -> either_parse(p.parser1, p.parser2, s)
      [] p.op = "and_then" -> and_then_parse(p.parser, p.f, s)

----------------------------------------------------------------------------
(* command.rs *)

\* the first element taken for the program and left out
elements_to_args_skip_first(elements) == [i \in 1..(Len(elements) - 1) |-> elements[i + 1].name]

elements_to_args(elements) == [i \in 1..Len(elements) |-> elements[i].name]

----------------------------------------------------------------------------
(* the state machine: a text is handed to a parser, and a successful       *)
(* document parse is flattened                                             *)

NoParser == <<"none">>

NoResult == Err(<<>>)

RECURSIVE Concat(_)
Concat(ss) == IF ss = <<>> THEN <<>> ELSE Head(ss) \o Concat(Tail(ss))

\* the sequences of at most n elements of S
SeqsUpTo(S, n) == UNION {[1..k -> S] : k \in 0..n}

Start(sh, text) ==
    /\ shape = sh
    /\ input = text
    /\ pc = "ready"
    /\ parser = NoParser
    /\ out = NoResult
    /\ args = <<>>

\* the parsers by name: the grammar's, and the sequences and the alternative
\* it builds inside them
Grammar ==
    [ non_literal |-> non_literal,
      any_char |-> any_char,
      whitespace_char |-> whitespace_char,
      not_quote_char |-> not_quote_char,
      quoted_string |-> quoted_string,
      attribute_pair |-> attribute_pair,
      attribute_item |-> attribute_item,
      element_start |-> element_start,
      single_element |-> single_element,
      open_element |-> open_element,
      parent_element |-> parent_element,
      element |-> element,
      wrapped_element |-> whitespace_wrap(element),
      cli_words |-> cli_words,
      pair_in_element_start |-> pair(non_literal, attributes),
      left_in_single_element |-> left(element_start, literal_match(<<"/", ">">>)),
      left_in_close_element |-> left(non_literal, literal_match(<<">">>)),
      right_in_attribute_pair |-> right(literal_match(<<"=">>), quoted_string),
      right_in_close_element |->
          right(literal_match(<<"<", "/">>), left(non_literal, literal_match(<<">">>))),
      either_in_element |-> either(single_element, parent_element) ]

\* the parser a name stands for: <<name>>, <<"literal_match", expected>>,
\* <<"close_element", expected_name>>, or a repetition of a named parser
Built(d) ==
    CASE d[1] = "literal_match" -> literal_match(d[2])
      [] d[1] = "close_element" -> close_element(d[2])
      [] d[1] = "zero_or_more" -> zero_or_more(Grammar[d[2]])
      [] d[1] = "one_or_more" -> one_or_more(Grammar[d[2]])
      [] OTHER -> Grammar[d[1]]

\* p.parse(input)
Parse(d) ==
    /\ pc = "ready"
    /\ pc' = "parsed"
    /\ parser' = d
    /\ out' = parse(Built(d), input)
    /\ UNCHANGED <<shape, input, args>>

\* elements_to_args(&elements) on the elements of a successful document parse
Flatten ==
    /\ pc = "parsed"
    /\ parser = <<"cli_words">>
    /\ out.ok
    /\ pc' = "flattened"
    /\ args' = elements_to_args(out.val)
    /\ UNCHANGED <<shape, input, parser, out>>

Do_literal_match == \E e \in {<<"<">>, <<"/", ">">>, <<"<", "/">>} : Parse(<<"literal_match", e>>)

Do_non_literal == Parse(<<"non_literal">>)

Do_any_char == Parse(<<"any_char">>)

Do_whitespace_char == Parse(<<"whitespace_char">>)

Do_quoted_string == Parse(<<"quoted_string">>)

Do_attribute_pair == Parse(<<"attribute_pair">>)

Do_element_start == Parse(<<"element_start">>)

Do_single_element == Parse(<<"single_element">>)

Do_open_element == Parse(<<"open_element">>)

Do_close_element == \E n \in {<<"a">>, <<"A">>} : Parse(<<"close_element", n>>)

Do_parent_element == Parse(<<"parent_element">>)

Do_element == Parse(<<"element">>)

Do_cli_words == Parse(<<"cli_words">>)

----------------------------------------------------------------------------
(* free text: every concatenation of at most MaxPieces lexical pieces *)

MaxPieces == 4

Pieces ==
    { <<"<", "a">>, <<"/", ">">>, <<">">>, <<"<", "/", "a", ">">>,
      <<"<", "/", "A", ">">>, <<" ">>, <<"k", "=", "\"", "v", "\"">>, <<"\"">> }

InitText ==
    \E ps \in SeqsUpTo(Pieces, MaxPieces) :
        Start([kind |-> "text", pieces |-> ps], Concat(ps))

\* the parsers the grammar puts under zero_or_more or one_or_more
Repeated == {"whitespace_char", "not_quote_char", "attribute_item", "element", "wrapped_element"}

Do_not_quote_char == Parse(<<"not_quote_char">>)

Do_attribute_item == Parse(<<"attribute_item">>)

Do_wrapped_element == Parse(<<"wrapped_element">>)

Do_zero_or_more == \E p \in Repeated : Parse(<<"zero_or_more", p>>)

Do_one_or_more == \E p \in Repeated : Parse(<<"one_or_more", p>>)

\* the sequences the grammar builds inside its parsers
Do_pair == Parse(<<"pair_in_element_start">>)

Do_left == \E n \in {"left_in_single_element", "left_in_close_element"} : Parse(<<n>>)

Do_right == \E n \in {"right_in_attribute_pair", "right_in_close_element"} : Parse(<<n>>)

Do_either == Parse(<<"either_in_element">>)

NextText ==
    \/ Do_literal_match
    \/ Do_non_literal
    \/ Do_any_char
    \/ Do_whitespace_char
    \/ Do_not_quote_char
    \/ Do_attribute_item
    \/ Do_element
    \/ Do_wrapped_element
    \/ Do_zero_or_more
    \/ Do_one_or_more
    \/ Do_pair
    \/ Do_left
    \/ Do_right
    \/ Do_either
    \/ Do_quoted_string
    \/ Do_attribute_pair
    \/ Do_element_start
    \/ Do_single_element
    \/ Do_open_element
    \/ Do_close_element
    \/ Do_parent_element
    \/ Do_cli_words
    \/ Flatten

SpecText == InitText /\ [][NextText]_vars

\* each parser under a repetition, run once
NextProgress ==
    \/ Do_whitespace_char
    \/ Do_not_quote_char
    \/ Do_attribute_item
    \/ Do_element
    \/ Do_wrapped_element

SpecProgress == InitText /\ [][NextProgress]_vars

----------------------------------------------------------------------------
(* rendering: the text of a tag and of a document *)

Spaces(n) == [i \in 1..n |-> IF i % 2 = 1 THEN " " ELSE "\t"]

RECURSIVE AttrText(_, _)
AttrText(attr, sep) ==
    IF attr = <<>> THEN <<>>
    ELSE Spaces(sep) \o Head(attr)[1] \o <<"=", "\"">> \o Head(attr)[2] \o <<"\"">>
         \o AttrText(Tail(attr), sep)

\* a tag: form is "single" (<name attrs/>), "open" (<name attrs>) or "close" (</name>)
TagText(form, name, attr, sep, gap) ==
    CASE form = "single" -> <<"<">> \o name \o AttrText(attr, sep) \o Spaces(gap) \o <<"/", ">">>
      [] form = "open" -> <<"<">> \o name \o AttrText(attr, sep) \o Spaces(gap) \o <<">">>
      [] form = "close" -> <<"<", "/">> \o name \o <<">">>

----------------------------------------------------------------------------
(* one tag: <name k1="v1" ... kn="vn" followed by gap whitespace, the     *)
(* closer and a tail                                                       *)

MaxAttrs == 2

MaxSep == 2

MaxGap == 1

Names == {<<"a">>, <<"A">>, <<"l", "s">>, <<"-", "l", "a">>}

Keys == {<<"k">>, <<"a", "-", "&", ".", WideChar>>}

Values == {<<>>, <<"v", " ", "/", ">", WideChar>>}

Tails == {<<>>, <<" ", "v">>, <<"<", "a", "/", ">">>}

TagShape(n, at, sp, g, f, tl) ==
    [kind |-> "tag", name |-> n, attr |-> at, sep |-> sp, gap |-> g, form |-> f, tail |-> tl]

RenderTag(sh) == TagText(sh.form, sh.name, sh.attr, sh.sep, sh.gap) \o sh.tail

InitTag ==
    \E n \in Names, at \in SeqsUpTo(Keys \X Values, MaxAttrs), sp \in 1..MaxSep,
       g \in 0..MaxGap, f \in {"single", "open"}, tl \in Tails :
        Start(TagShape(n, at, sp, g, f, tl), RenderTag(TagShape(n, at, sp, g, f, tl)))

NextTag ==
    \/ Do_element_start
    \/ Do_single_element
    \/ Do_open_element
    \/ Do_parent_element
    \/ Do_element
    \/ Do_cli_words
    \/ Flatten

SpecTag == InitTag /\ [][NextTag]_vars

----------------------------------------------------------------------------
(* documents: forests of at most MaxNodes elements, whitespace between the *)
(* tags, and possibly one defect                                           *)

MaxNodes == 3

MaxWs == 1

Heads == { [name |-> <<"a">>, attr |-> <<>>],
           [name |-> <<"A">>, attr |-> << <<(<<"k">>), (<<"v">>)>> >>] }

Node(h, form, children) ==
    [name |-> h.name, attr |-> h.attr, form |-> form, children |-> children]

RECURSIVE TreesN(_), ForestsN(_)
TreesN(n) ==
    (IF n = 1 THEN {Node(h, "single", <<>>) : h \in Heads} ELSE {})
    \cup {Node(h, "parent", kids) : h \in Heads, kids \in ForestsN(n - 1)}

ForestsN(n) ==
    IF n = 0 THEN {<<>>}
    ELSE UNION {{<<t>> \o f : t \in TreesN(k), f \in ForestsN(n - k)} : k \in 1..n}

RECURSIVE TagsOf(_)
TagsOf(forest) ==
    IF forest = <<>> THEN <<>>
    ELSE LET t == Head(forest) IN
         (IF t.form = "single"
          THEN <<[form |-> "single", name |-> t.name, attr |-> t.attr]>>
          ELSE <<[form |-> "open", name |-> t.name, attr |-> t.attr]>>
               \o TagsOf(t.children)
               \o <<[form |-> "close", name |-> t.name, attr |-> <<>>]>>)
         \o TagsOf(Tail(forest))

RECURSIVE ElementsOf(_)
ElementsOf(forest) ==
    [i \in 1..Len(forest) |->
        Element(forest[i].name, forest[i].attr, ElementsOf(forest[i].children))]

SlotKinds == {"lead", "sibling", "first", "last", "empty", "trail"}

\* the kind of slot j, the place after tag j (0: before the first tag)
SlotKind(tags, j) ==
    IF j = 0 THEN "lead"
    ELSE IF j = Len(tags) THEN "trail"
    ELSE IF tags[j].form = "open" /\ tags[j + 1].form = "close" THEN "empty"
    ELSE IF tags[j].form = "open" THEN "first"
    ELSE IF tags[j + 1].form = "close" THEN "last"
    ELSE "sibling"

\* the same amount everywhere, or whitespace in the slots of one kind only
WsConfigs ==
    {[k \in SlotKinds |-> c] : c \in 0..MaxWs}
    \cup {[k \in SlotKinds |-> IF k = one THEN c ELSE 0] : one \in SlotKinds, c \in 1..MaxWs}

Junk == <<"l", "s">>

OtherName(name) == IF name = <<"a">> THEN <<"A">> ELSE <<"a">>

\* the tags as written: a mismatch defect renames the closing tag of the first tree
Written(sh) ==
    LET tags == TagsOf(sh.forest)
        m == Len(TagsOf(<<Head(sh.forest)>>))
    IN  [j \in 1..Len(tags) |->
            IF sh.defect.d = "mismatch" /\ j = m
            THEN [tags[j] EXCEPT !.name = OtherName(tags[j].name)]
            ELSE tags[j]]

\* segment 2j is tag j, segment 2j+1 is slot j
Segments(sh) ==
    LET tags == Written(sh) IN
    [i \in 1..(2 * Len(tags) + 1) |->
        IF i % 2 = 0
        THEN TagText(tags[i \div 2].form, tags[i \div 2].name, tags[i \div 2].attr, 1, 0)
        ELSE (IF sh.defect.d = "junk" /\ sh.defect.at = i \div 2 THEN Junk ELSE <<>>)
             \o Spaces(sh.ws[SlotKind(tags, i \div 2)])]

RenderFrom(sh, i) == LET segs == Segments(sh) IN Concat(SubSeq(segs, i, Len(segs)))

RenderDoc(sh) == RenderFrom(sh, 1)

DocShape(f, w, d) == [kind |-> "doc", forest |-> f, ws |-> w, defect |-> d]

\* a junk defect goes with no whitespace, a mismatch defect with a first tree
\* that has a closing tag
Defects(f, w) ==
    {[d |-> "none"]}
    \cup (IF \A k \in SlotKinds : w[k] = 0
          THEN {[d |-> "junk", at |-> j] : j \in 0..Len(TagsOf(f))}
          ELSE {})
    \cup (IF Head(f).form = "parent" THEN {[d |-> "mismatch"]} ELSE {})

Init ==
    \E n \in 1..MaxNodes :
        \E f \in ForestsN(n), w \in WsConfigs :
            \E d \in Defects(f, w) : Start(DocShape(f, w, d), RenderDoc(DocShape(f, w, d)))

Next ==
    \/ Do_parent_element
    \/ Do_element
    \/ Do_cli_words
    \/ Flatten

Spec == Init /\ [][Next]_vars

----------------------------------------------------------------------------
(* the properties *)

IsSuffix(t, s) == Len(t) <= Len(s) /\ t = SubSeq(s, Len(s) - Len(t) + 1, Len(s))

Failed == pc = "parsed" /\ ~out.ok

Combinators == {"mapper", "pair", "either", "and_then", "one_or_more", "pred"}

\* C1, as stated: a combinator or grammar parser that fails on s returns Err(s),
\* the input it was given.
C1_FailureReturnsInput ==
    Failed /\ Built(parser).op \in Combinators => out.rest = input

\* C1, amended: a parser that fails on s returns a suffix of s.  A predicate
\* filter (whitespace_char, the non-quote char, close_element) returns s itself;
\* a sequence (pair, left, right) whose first parser succeeded returns what its
\* second parser returned on the first's remaining input, and and_then
\* likewise what the parser its function built returned.
C1_FailureReturnsSuffix ==
    Failed =>
        LET p == Built(parser) IN
        /\ IsSuffix(out.rest, input)
        /\ p.op = "pred" => out.rest = input
        /\ p.op = "pair" /\ parse(p.parser1, input).ok =>
               out.rest = parse(p.parser2, parse(p.parser1, input).rest).rest
        /\ p.op = "and_then" /\ parse(p.parser, input).ok =>
               out.rest = parse(Call(p.f, parse(p.parser, input).val),
                                parse(p.parser, input).rest).rest

\* a filter rejected a value its parser had consumed input for
C1_Witness ==
    /\ Failed
    /\ Built(parser).op = "pred"
    /\ parse(Built(parser).parser, input).ok
    /\ parse(Built(parser).parser, input).rest /= input

----------------------------------------------------------------------------

DocParsed == pc = "parsed" /\ shape.kind = "doc" /\ parser = <<"cli_words">>

\* C2: cli_words fails on a document with content that is neither whitespace nor
\* a well-formed tag, wherever it is, and never returns Ok with remaining input
\* that is not whitespace.
C2_StrayContentFails ==
    DocParsed =>
        /\ shape.defect.d /= "none" => ~out.ok
        /\ out.ok => \A i \in 1..Len(out.rest) : is_whitespace(out.rest[i])

----------------------------------------------------------------------------

TagParsed ==
    /\ pc = "parsed"
    /\ shape.kind = "tag"
    /\ \/ shape.form = "single" /\ parser = <<"single_element">>
       \/ shape.form = "open" /\ parser = <<"open_element">>

\* C3: whitespace after the attribute list and before the tag's /> or > is
\* accepted, and the tag yields the Element of the tag written without it.
C3_WhitespaceBeforeCloser ==
    TagParsed =>
        /\ out.ok
        /\ out.val = parse(Built(parser), RenderTag([shape EXCEPT !.gap = 0])).val

----------------------------------------------------------------------------

\* C4: a well-formed document parses to its element list whatever the amount of
\* whitespace before the first tag, after the last tag and between adjacent tags.
C4_WhitespaceBetweenTags ==
    DocParsed /\ shape.defect.d = "none" => out = Ok(<<>>, ElementsOf(shape.forest))

----------------------------------------------------------------------------

\* C5: single_element on a well-formed self-closing tag followed by any input
\* yields the tag's name, its attributes in source order with duplicate keys
\* kept, no children, and the input after the tag's /> as the remaining input.
C5_SelfClosingTag ==
    TagParsed /\ shape.form = "single" /\ shape.gap = 0 =>
        out = Ok(shape.tail, Element(shape.name, shape.attr, <<>>))

\* two attributes with the same key, and input after the tag
C5_Witness ==
    /\ TagParsed /\ shape.form = "single" /\ shape.gap = 0
    /\ out.ok
    /\ Len(out.val.attr) = 2
    /\ out.val.attr[1][1] = out.val.attr[2][1]
    /\ out.val.attr[1][2] /= out.val.attr[2][2]
    /\ out.rest /= <<>>

----------------------------------------------------------------------------

\* the tags of the first tree: the last one is its closing tag
RootTags(sh) == Len(TagsOf(<<Head(sh.forest)>>))

\* a well-formed document whose first tree is a parent, with no whitespace
\* between the opening and closing tag of a childless parent (C4), handed to
\* element, or to parent_element when the text starts with the opening tag
NestedParsed ==
    /\ pc = "parsed"
    /\ shape.kind = "doc"
    /\ shape.defect.d = "none"
    /\ shape.ws["empty"] = 0
    /\ Head(shape.forest).form = "parent"
    /\ \/ parser = <<"element">>
       \/ parser = <<"parent_element">> /\ shape.ws["lead"] = 0

\* C6: the element parser on a well-formed nested tag yields the Element with the
\* opening tag's name and attributes and the parsed children in source order,
\* to any depth; the remaining input is what follows the closing tag
\* (parent_element) and the whitespace after it (element).
C6_NestedTag ==
    NestedParsed =>
        out = Ok(RenderFrom(shape, 2 * RootTags(shape)
                                   + (IF parser = <<"element">> THEN 2 ELSE 1)),
                 ElementsOf(<<Head(shape.forest)>>)[1])

\* a parent whose child has the parent's name and a child of its own, with
\* whitespace after each opening tag
C6_Witness ==
    /\ NestedParsed
    /\ shape.ws["first"] = 1
    /\ out.ok
    /\ Len(out.val.children) = 1
    /\ out.val.children[1].name = out.val.name
    /\ Len(out.val.children[1].children) = 1

----------------------------------------------------------------------------

MismatchParsed ==
    /\ pc = "parsed"
    /\ shape.kind = "doc"
    /\ shape.defect.d = "mismatch"
    /\ \/ parser = <<"element">>
       \/ parser = <<"cli_words">>
       \/ parser = <<"parent_element">> /\ shape.ws["lead"] = 0
    /\ shape.ws["empty"] = 0 \/ RootTags(shape) = 2

\* C7: a parent element whose closing tag name differs from its opening tag name,
\* be it only in case, fails to parse in parent_element, element and cli_words,
\* and the failure returns the input from where the closing-tag parser was run:
\* right after the opening tag when there is no child, after the last parsed
\* child (and the whitespace it took) otherwise.
C7_MismatchedClose ==
    MismatchParsed =>
        /\ ~out.ok
        /\ out.rest = RenderFrom(shape, IF RootTags(shape) = 2 THEN 3 ELSE 2 * RootTags(shape))

\* the document parse of a parent with a child and a closing tag of another case
C7_Witness ==
    /\ MismatchParsed
    /\ parser = <<"cli_words">>
    /\ RootTags(shape) > 2
    /\ ~out.ok
    /\ out.rest /= input
    /\ out.rest /= <<>>

----------------------------------------------------------------------------

\* C8: a successful cli_words has a non-empty element list, and elements_to_args
\* gives one token per top-level element, its name, in order; for a well-formed
\* document parsed to its end these are the names of its top-level elements,
\* whatever their attributes and children.
C8_FlattenNames ==
    pc = "flattened" =>
        /\ out.val /= <<>>
        /\ Len(args) = Len(out.val)
        /\ \A i \in 1..Len(args) : args[i] = out.val[i].name
        /\ shape.kind = "doc" /\ shape.defect.d = "none" /\ out.rest = <<>> =>
               args = [i \in 1..Len(shape.forest) |-> shape.forest[i].name]

\* two top-level elements, one with an attribute and a child
C8_Witness ==
    /\ pc = "flattened"
    /\ Len(args) = 2
    /\ args[1] /= args[2]
    /\ \E i \in 1..2 : out.val[i].attr /= <<>> /\ out.val[i].children /= <<>>

----------------------------------------------------------------------------

\* the input p is run on after i successes from s
RECURSIVE After(_, _, _)
After(p, s, i) == IF i = 0 THEN s ELSE parse(p, After(p, s, i - 1)).rest

\* n successes of p from s, then a failure
RunOf(p, s, n) ==
    /\ \A i \in 0..(n - 1) : parse(p, After(p, s, i)).ok
    /\ ~parse(p, After(p, s, n)).ok

\* C9: zero_or_more(p) always succeeds with the values of the maximal run of
\* successes of p and leaves the input on which p first failed; one_or_more(p)
\* gives the same result when p succeeds on s and fails when p fails on s.
C9_GreedyRepetition ==
    pc = "parsed" /\ parser[1] \in {"zero_or_more", "one_or_more"} =>
        LET p == Grammar[parser[2]] IN
        /\ parser[1] = "zero_or_more" =>
            /\ out.ok
            /\ \E n \in 0..Len(input) :
                /\ RunOf(p, input, n)
                /\ out.val = [i \in 1..n |-> parse(p, After(p, input, i - 1)).val]
                /\ out.rest = After(p, input, n)
            /\ input = <<>> => out = Ok(<<>>, <<>>)
        /\ parser[1] = "one_or_more" =>
            /\ parse(p, input).ok => out = parse(zero_or_more(p), input)
            /\ ~parse(p, input).ok => ~out.ok

\* a repetition whose failing attempt had consumed input before it failed
C9_Witness ==
    /\ pc = "parsed"
    /\ parser = <<"zero_or_more", "attribute_item">>
    /\ Len(out.val) = 1
    /\ out.rest /= <<>>
    /\ parse(attribute_item, out.rest).rest /= out.rest

----------------------------------------------------------------------------

\* C10: every parser the grammar puts under a repetition leaves, when it
\* succeeds, strictly less input than it was given.
C10_RepeatedParsersConsume ==
    pc = "parsed" /\ parser[1] \in Repeated /\ out.ok =>
        /\ IsSuffix(out.rest, input)
        /\ ByteLen(out.rest) < ByteLen(input)

\* an element between whitespace, parsed
C10_Witness ==
    /\ pc = "parsed"
    /\ parser = <<"wrapped_element">>
    /\ out.ok
    /\ out.val.name = <<"a">>
    /\ Len(input) - Len(out.rest) >= 6

====
